---------------------------- MODULE Spec2Model ----------------------------
(***************************************************************************)
(* A model of flaskbb/user/views.py: the four settings views, the file     *)
(* deletion view and the token generation view, each as the sequence of    *)
(* effects its handler performs on the collaborators it calls (the update  *)
(* handlers, the flash service, the logger, the filesystem, the            *)
(* UploadedFile table and the hub's Token table).                          *)
(***************************************************************************)
EXTENDS Integers, Sequences, FiniteSets, TLC

VARIABLES
    persisted,       \* user id -> settings category -> persisted value
    uploaded_files,  \* rows of the UploadedFile table
    fs,              \* paths that exist below UPLOAD_FOLDER
    tokens,          \* committed rows of the hub's Token table
    byond_ckey,      \* user id -> linked BYOND ckey, or None
    reqs,            \* GenerateToken requests: request id -> position and session
    last,            \* the request answered by the latest step, and its effects
    served           \* number of requests answered so far

vars == <<persisted, uploaded_files, fs, tokens, byond_ckey, reqs, last, served>>

None == "None"

(***************************************************************************)
(* Bounds of the model.                                                    *)
(***************************************************************************)
NumUsers == 2
MaxFiles == 2
MaxServed == 2
MaxReq == 2
NumTokenValues == 2

UserIds == 1 .. NumUsers
\* Path parameters <userid> seen by GenerateToken: any user id, or one of no user.
PathUserIds == 0 .. NumUsers
FileIds == 1 .. MaxFiles
ReqIds == 1 .. MaxReq
FormValues == {"v1", "v2"}
InitialValue == "v0"

(***************************************************************************)
(* The principals.  User 1 holds the "admin" permission.                   *)
(***************************************************************************)
User(u) == [id |-> u, username |-> <<"user", u>>, discord |-> <<"discord", u>>]

has_permission(user, perm) == perm = "admin" /\ user.id = 1

(***************************************************************************)
(* The blueprint's route table: endpoint, rule and the view served.        *)
(***************************************************************************)
flaskbb_load_blueprints ==
    { [endpoint |-> "change_email",        rule |-> "/settings/email",          view |-> "ChangeEmail"],
      [endpoint |-> "settings",            rule |-> "/settings/general",        view |-> "UserSettings"],
      [endpoint |-> "change_password",     rule |-> "/settings/password",       view |-> "ChangePassword"],
      [endpoint |-> "change_user_details", rule |-> "/settings/user-details",   view |-> "ChangeUserDetails"],
      [endpoint |-> "user_uploads",        rule |-> "/settings/uploads",        view |-> "UserUploads"],
      [endpoint |-> "delete_file",         rule |-> "/settings/uploads/delete", view |-> "DeleteFile"],
      [endpoint |-> "view_all_posts",      rule |-> "/user<userid>/posts",      view |-> "AllUserPosts"],
      [endpoint |-> "view_all_topics",     rule |-> "/user<userid>/topics",     view |-> "AllUserTopics"],
      [endpoint |-> "generate_token",      rule |-> "/user<userid>/generate-token", view |-> "GenerateToken"],
      [endpoint |-> "profile",             rule |-> "/user<userid>",            view |-> "UserProfile"] }

\* url_for("user.<endpoint>", userid=...): the rule registered under the endpoint,
\* with the userid it was built for (0 when the rule takes none).
url_for(endpoint, userid) ==
    LET r == CHOOSE x \in flaskbb_load_blueprints : x.endpoint = endpoint
    IN  [rule |-> r.rule, userid |-> userid]

\* The rule under which a view class is registered.
RuleOf(view) == (CHOOSE x \in flaskbb_load_blueprints : x.view = view).rule

(***************************************************************************)
(* Effects a handler performs, in the order it performs them.              *)
(***************************************************************************)
Flash(msg, category) == [op |-> "flash", msg |-> msg, category |-> category]
Redirect(url)        == [op |-> "redirect", url |-> url]
Render(template, errors) == [op |-> "render", template |-> template, errors |-> errors]
Validate(ok)         == [op |-> "validate_on_submit", ok |-> ok]
Apply(handler, user, change) ==
    [op |-> "apply_changeset", handler |-> handler, user |-> user, change |-> change]
Populate(reasons)    == [op |-> "populate_errors", reasons |-> reasons]
LogEntry(level, msg) == [op |-> "log", level |-> level, msg |-> msg]
Raise(exc)           == [op |-> "raise", exc |-> exc]

\* form.as_change(): the change set carries the submitted form data.
as_change(form) == [value |-> form.data]

\* The outcomes of an update handler's apply_changeset.
Outcomes ==
    { [kind |-> "ok", reasons |-> {}],
      [kind |-> "StopValidation", reasons |-> {"taken"}],
      [kind |-> "StopValidation", reasons |-> {"taken", "weak"}],
      [kind |-> "PersistenceError", reasons |-> {}] }

\* The form of a request: a POST submits data that the form's own validators
\* accept or not; a GET submits nothing.
Forms(method) ==
    IF method = "POST"
    THEN [submitted : {TRUE}, valid : BOOLEAN, data : FormValues]
    ELSE {[submitted |-> FALSE, valid |-> FALSE, data |-> None]}

\* FlaskForm.validate_on_submit(): is_submitted() and validate().
validate_on_submit(form) == form.submitted /\ form.valid

\* The errors the form carries after its own validation.
FormErrors(form) == IF form.submitted /\ ~form.valid THEN {"invalid"} ELSE {}


(***************************************************************************)
(* The settings views.  Each operator is the trace of effects of one       *)
(* handler run, given the principal, the form and the outcome with which   *)
(* the update handler answers if it is called.                             *)
(***************************************************************************)
UserSettings_render(errors) == Render("user/general_settings.html", errors)
\* Faulty variant: the redirect of another settings view.
UserSettings_redirect_elsewhere == Redirect(url_for("change_password", 0))
UserSettings_redirect == Redirect(url_for("settings", 0))

UserSettings_get(form) == << UserSettings_render(FormErrors(form)) >>

UserSettings_post(user, form, outcome) ==
    IF validate_on_submit(form)
    THEN LET call == Apply("settings_update_handler", user.id, as_change(form))
         IN  CASE outcome.kind = "StopValidation" ->
                    << Validate(TRUE), call, Populate(outcome.reasons),
                       UserSettings_render(outcome.reasons) >>
               [] outcome.kind = "PersistenceError" ->
                    << Validate(TRUE), call,
                       LogEntry("exception", "Error while updating user settings"),
                       Flash("Error while updating user settings", "danger"),
                       UserSettings_redirect >>
               [] OTHER ->
                    << Validate(TRUE), call,
                       Flash("Settings updated.", "success"),
                       UserSettings_redirect >>
    ELSE << Validate(FALSE), UserSettings_render(FormErrors(form)) >>

ChangePassword_render(errors) == Render("user/change_password.html", errors)
ChangePassword_redirect == Redirect(url_for("change_password", 0))

ChangePassword_get(form) == << ChangePassword_render(FormErrors(form)) >>

\* Faulty variant: the handler is called for every submitted form, valid or not.
ChangePassword_post_unvalidated(user, form, outcome) ==
    IF form.submitted
    THEN LET call == Apply("password_update_handler", user.id, as_change(form))
         IN  CASE outcome.kind = "StopValidation" ->
                    << Validate(form.valid), call, Populate(outcome.reasons),
                       ChangePassword_render(outcome.reasons) >>
               [] outcome.kind = "PersistenceError" ->
                    << Validate(form.valid), call,
                       LogEntry("exception", "Error while changing password"),
                       Flash("Error while changing password", "danger"),
                       ChangePassword_redirect >>
               [] OTHER ->
                    << Validate(form.valid), call,
                       Flash("Password updated.", "success"),
                       ChangePassword_redirect >>
    ELSE << Validate(FALSE), ChangePassword_render(FormErrors(form)) >>

ChangePassword_post(user, form, outcome) ==
    IF validate_on_submit(form)
    THEN LET call == Apply("password_update_handler", user.id, as_change(form))
         IN  CASE outcome.kind = "StopValidation" ->
                    << Validate(TRUE), call, Populate(outcome.reasons),
                       ChangePassword_render(outcome.reasons) >>
               [] outcome.kind = "PersistenceError" ->
                    << Validate(TRUE), call,
                       LogEntry("exception", "Error while changing password"),
                       Flash("Error while changing password", "danger"),
                       ChangePassword_redirect >>
               [] OTHER ->
                    << Validate(TRUE), call,
                       Flash("Password updated.", "success"),
                       ChangePassword_redirect >>
    ELSE << Validate(FALSE), ChangePassword_render(FormErrors(form)) >>

ChangeEmail_render(errors) == Render("user/change_email.html", errors)
ChangeEmail_redirect == Redirect(url_for("change_email", 0))

ChangeEmail_get(form) == << ChangeEmail_render(FormErrors(form)) >>

\* Faulty variant: StopValidation is handled like PersistenceError.
ChangeEmail_post_redirects(user, form, outcome) ==
    IF validate_on_submit(form)
    THEN LET call == Apply("update_email_handler", user.id, as_change(form))
         IN  CASE outcome.kind \in {"StopValidation", "PersistenceError"} ->
                    << Validate(TRUE), call,
                       LogEntry("exception", "Error while updating email"),
                       Flash("Error while updating email", "danger"),
                       ChangeEmail_redirect >>
               [] OTHER ->
                    << Validate(TRUE), call,
                       Flash("Email address updated.", "success"),
                       ChangeEmail_redirect >>
    ELSE << Validate(FALSE), ChangeEmail_render(FormErrors(form)) >>

ChangeEmail_post(user, form, outcome) ==
    IF validate_on_submit(form)
    THEN LET call == Apply("update_email_handler", user.id, as_change(form))
         IN  CASE outcome.kind = "StopValidation" ->
                    << Validate(TRUE), call, Populate(outcome.reasons),
                       ChangeEmail_render(outcome.reasons) >>
               [] outcome.kind = "PersistenceError" ->
                    << Validate(TRUE), call,
                       LogEntry("exception", "Error while updating email"),
                       Flash("Error while updating email", "danger"),
                       ChangeEmail_redirect >>
               [] OTHER ->
                    << Validate(TRUE), call,
                       Flash("Email address updated.", "success"),
                       ChangeEmail_redirect >>
    ELSE << Validate(FALSE), ChangeEmail_render(FormErrors(form)) >>

ChangeUserDetails_render(errors) == Render("user/change_user_details.html", errors)
ChangeUserDetails_redirect == Redirect(url_for("change_user_details", 0))

ChangeUserDetails_get(form) == << ChangeUserDetails_render(FormErrors(form)) >>

\* Faulty variant: the success notification is flashed before the handler runs.
ChangeUserDetails_post_flash_first(user, form, outcome) ==
    IF validate_on_submit(form)
    THEN LET call == Apply("details_update_handler", user.id, as_change(form))
             ok == Flash("User details updated.", "success")
         IN  CASE outcome.kind = "StopValidation" ->
                    << Validate(TRUE), ok, call, Populate(outcome.reasons),
                       ChangeUserDetails_render(outcome.reasons) >>
               [] outcome.kind = "PersistenceError" ->
                    << Validate(TRUE), ok, call,
                       LogEntry("exception", "Error while updating user details"),
                       Flash("Error while updating user details", "danger"),
                       ChangeUserDetails_redirect >>
               [] OTHER ->
                    << Validate(TRUE), ok, call, ChangeUserDetails_redirect >>
    ELSE << Validate(FALSE), ChangeUserDetails_render(FormErrors(form)) >>

ChangeUserDetails_post(user, form, outcome) ==
    IF validate_on_submit(form)
    THEN LET call == Apply("details_update_handler", user.id, as_change(form))
         IN  CASE outcome.kind = "StopValidation" ->
                    << Validate(TRUE), call, Populate(outcome.reasons),
                       ChangeUserDetails_render(outcome.reasons) >>
               [] outcome.kind = "PersistenceError" ->
                    << Validate(TRUE), call,
                       LogEntry("exception", "Error while updating user details"),
                       Flash("Error while updating user details", "danger"),
                       ChangeUserDetails_redirect >>
               [] OTHER ->
                    << Validate(TRUE), call,
                       Flash("User details updated.", "success"),
                       ChangeUserDetails_redirect >>
    ELSE << Validate(FALSE), ChangeUserDetails_render(FormErrors(form)) >>

SettingsViews == {"UserSettings", "ChangePassword", "ChangeEmail", "ChangeUserDetails"}

\* MethodView.dispatch_request: the handler named after the request method.
Dispatch(view, method, user, form, outcome) ==
    CASE view = "UserSettings" ->
            IF method = "GET" THEN UserSettings_get(form)
            ELSE UserSettings_post(user, form, outcome)
      [] view = "ChangePassword" ->
            IF method = "GET" THEN ChangePassword_get(form)
            ELSE ChangePassword_post(user, form, outcome)
      [] view = "ChangeEmail" ->
            IF method = "GET" THEN ChangeEmail_get(form)
            ELSE ChangeEmail_post(user, form, outcome)
      [] view = "ChangeUserDetails" ->
            IF method = "GET" THEN ChangeUserDetails_get(form)
            ELSE ChangeUserDetails_post(user, form, outcome)

\* The handler each settings view is built with, and the category it updates.
Handlers ==
    { "settings_update_handler", "password_update_handler",
      "update_email_handler", "details_update_handler" }

HandlerOf(view) ==
    CASE view = "UserSettings" -> "settings_update_handler"
      [] view = "ChangePassword" -> "password_update_handler"
      [] view = "ChangeEmail" -> "update_email_handler"
      [] view = "ChangeUserDetails" -> "details_update_handler"

\* The update handler: on success the principal's persisted attributes reflect
\* the change set; on either failure they are unchanged.
apply_changeset(p, handler, userid, change, outcome) ==
    IF outcome.kind = "ok"
    THEN [p EXCEPT ![userid][handler] = change.value]
    ELSE p

\* The persisted state after the handler calls of a trace, in order.
RECURSIVE AfterCalls(_, _, _)
AfterCalls(trace, p, outcome) ==
    IF trace = << >> THEN p
    ELSE LET e == Head(trace)
         IN  AfterCalls(Tail(trace),
                        IF e.op = "apply_changeset"
                        THEN apply_changeset(p, e.handler, e.user, e.change, outcome)
                        ELSE p,
                        outcome)

NoRequest ==
    [view |-> None, method |-> None, user |-> 0, trace |-> << >>]

SettingsRequest(u, view, method, form, outcome) ==
    /\ served < MaxServed
    /\ LET trace == Dispatch(view, method, User(u), form, outcome)
       IN  /\ persisted' = AfterCalls(trace, persisted, outcome)
           /\ last' = [view |-> view, method |-> method, user |-> u,
                       form |-> form, outcome |-> outcome, trace |-> trace,
                       before |-> persisted]
    /\ served' = served + 1
    /\ UNCHANGED <<uploaded_files, fs, tokens, byond_ckey, reqs>>

InitSettings ==
    /\ persisted = [u \in UserIds |-> [h \in Handlers |-> InitialValue]]
    /\ uploaded_files = {}
    /\ fs = {}
    /\ tokens = {}
    /\ byond_ckey = [u \in UserIds |-> None]
    /\ reqs = [r \in ReqIds |-> [pc |-> "idle"]]
    /\ last = NoRequest
    /\ served = 0

NextSettings ==
    \E u \in UserIds, view \in SettingsViews, method \in {"GET", "POST"} :
        \E form \in Forms(method), outcome \in Outcomes :
            SettingsRequest(u, view, method, form, outcome)

SpecSettings == InitSettings /\ [][NextSettings]_vars

(***************************************************************************)
(* File deletion.                                                          *)
(***************************************************************************)
UPLOAD_FOLDER == "UPLOAD_FOLDER"

\* Path components that flask.safe_join refuses.
UnsafeNames == {"..", "/abs"}

\* flask.safe_join(directory, *pathnames): the joined path, or NotFound when a
\* component would leave the directory.
safe_join(directory, a, b) ==
    IF a \in UnsafeNames \/ b \in UnsafeNames
    THEN [ok |-> FALSE, path |-> << >>]
    ELSE [ok |-> TRUE, path |-> <<directory, a, b>>]

\* The message of DeleteFile's log entries: the file, its owner and the actor.
Audit(level, file_record, file_owner, actor) ==
    [op |-> "log", level |-> level, file |-> file_record.id,
     owner |-> file_owner.username, owner_discord |-> file_owner.discord,
     actor |-> actor.username, actor_discord |-> actor.discord]

OsRemove(path, ok) == [op |-> "os.remove", path |-> path, ok |-> ok]
RecordDelete(id, ok) == [op |-> "file_record.delete", id |-> id, ok |-> ok]

\* What the filesystem and the database answer to one request.
FileEnvs == [io_error : BOOLEAN, db_error : BOOLEAN]

\* query.filter_by(id=...).first_or_404() on the two tables.
FileById(file_id) == {f \in uploaded_files : f.id = file_id}
UserById(user_id) == {User(u) : u \in {x \in UserIds : x = user_id}}

FileResult(trace, files, fsys) == [trace |-> trace, files |-> files, fs |-> fsys]

\* Faulty variant: any signed-in principal passes.
DeleteFile_authorized_anyone(file_owner, user) ==
    file_owner.id = user.id \/ user.id \in UserIds

\* The authorization test of DeleteFile.post (line 201).
DeleteFile_authorized(file_owner, user) ==
    file_owner.id = user.id \/ has_permission(user, "admin")

\* The path of the file's bytes (line 205).
DeleteFile_path(file_owner, file_record) ==
    safe_join(UPLOAD_FOLDER, file_owner.discord, file_record.current_name)

\* The refusal (lines 202-203): a warning in the log and a redirect.
DeleteFile_refuse(file_record, file_owner, user) ==
    FileResult(<< Audit("warning", file_record, file_owner, user),
                  Redirect(url_for("user_uploads", 0)) >>,
               uploaded_files, fs)

\* Faulty variant: the error of os.remove is swallowed and the request goes on.
DeleteFile_remove_swallowed(info, path, file_record) ==
    FileResult(<< info, OsRemove(path, FALSE),
                  RecordDelete(file_record.id, TRUE),
                  Flash("File deleted.", "success"),
                  Redirect(url_for("user_uploads", 0)) >>,
               uploaded_files \ {file_record}, fs)

\* os.remove raises (line 209): nothing after it runs.
DeleteFile_remove_fails(info, path, file_record) ==
    FileResult(<< info, OsRemove(path, FALSE), Raise("OSError") >>,
               uploaded_files, fs)

\* file_record.delete() raises (line 210) after os.remove has removed the bytes.
DeleteFile_delete_fails(info, path, file_record) ==
    FileResult(<< info, OsRemove(path, TRUE),
                  RecordDelete(file_record.id, FALSE), Raise("DatabaseError") >>,
               uploaded_files, fs \ {path})

\* Faulty variant: the record is deleted before the bytes are removed.
DeleteFile_steps_record_first(info, path, file_record) ==
    FileResult(<< info, RecordDelete(file_record.id, TRUE),
                  OsRemove(path, TRUE),
                  Flash("File deleted.", "success"),
                  Redirect(url_for("user_uploads", 0)) >>,
               uploaded_files \ {file_record}, fs \ {path})

\* Every step succeeds (lines 207-213).
DeleteFile_steps(info, path, file_record) ==
    FileResult(<< info, OsRemove(path, TRUE),
                  RecordDelete(file_record.id, TRUE),
                  Flash("File deleted.", "success"),
                  Redirect(url_for("user_uploads", 0)) >>,
               uploaded_files \ {file_record}, fs \ {path})

\* DeleteFile.post: the effects in order, and the table and filesystem it leaves.
\* os.remove fails when the path does not exist or the filesystem refuses.
DeleteFile_post(user, file_id, env) ==
    IF FileById(file_id) = {}
    THEN FileResult(<< Raise("NotFound") >>, uploaded_files, fs)
    ELSE
    LET file_record == CHOOSE f \in FileById(file_id) : TRUE IN
    IF UserById(file_record.user_id) = {}
    THEN FileResult(<< Raise("NotFound") >>, uploaded_files, fs)
    ELSE
    LET file_owner == CHOOSE o \in UserById(file_record.user_id) : TRUE IN
    IF ~DeleteFile_authorized(file_owner, user)
    THEN DeleteFile_refuse(file_record, file_owner, user)
    ELSE
    LET joined == DeleteFile_path(file_owner, file_record) IN
    IF ~joined.ok
    THEN FileResult(<< Raise("NotFound") >>, uploaded_files, fs)
    ELSE
    LET path == joined.path
        info == Audit("info", file_record, file_owner, user)
    IN
    IF path \notin fs \/ env.io_error
    THEN DeleteFile_remove_fails(info, path, file_record)
    ELSE IF env.db_error
    THEN DeleteFile_delete_fails(info, path, file_record)
    ELSE DeleteFile_steps(info, path, file_record)

DeleteFileRequest(u, file_id, env) ==
    /\ served < MaxServed
    /\ LET res == DeleteFile_post(User(u), file_id, env)
       IN  /\ uploaded_files' = res.files
           /\ fs' = res.fs
           /\ last' = [view |-> "DeleteFile", method |-> "POST", user |-> u,
                       file_id |-> file_id, env |-> env, trace |-> res.trace,
                       before |-> [files |-> uploaded_files, fs |-> fs]]
    /\ served' = served + 1
    /\ UNCHANGED <<persisted, tokens, byond_ckey, reqs>>

\* The uploads at the start: file f belongs to user ((f - 1) % NumUsers) + 1 and
\* its bytes are stored under the owner's discord id.
OwnerOf(f) == ((f - 1) % NumUsers) + 1
InitialFiles ==
    { [id |-> f, user_id |-> OwnerOf(f), current_name |-> <<"name", f>>] : f \in FileIds }
PathOf(f) == <<UPLOAD_FOLDER, User(f.user_id).discord, f.current_name>>

InitFiles ==
    /\ persisted = [u \in UserIds |-> [h \in Handlers |-> InitialValue]]
    /\ uploaded_files = InitialFiles
    /\ fs = {PathOf(f) : f \in InitialFiles}
    /\ tokens = {}
    /\ byond_ckey = [u \in UserIds |-> None]
    /\ reqs = [r \in ReqIds |-> [pc |-> "idle"]]
    /\ last = NoRequest
    /\ served = 0

NextFiles ==
    \E u \in UserIds, file_id \in 0 .. MaxFiles, env \in FileEnvs :
        DeleteFileRequest(u, file_id, env)

SpecFiles == InitFiles /\ [][NextFiles]_vars

(***************************************************************************)
(* Token generation.  The handler's two database steps, the DELETE issued  *)
(* in the request's session and the INSERT with its commit, are separate   *)
(* steps: requests served by different workers interleave between them.    *)
(***************************************************************************)
TokenValues == 1 .. NumTokenValues

\* hub.utils.get_byond_ckey(user): the ckey linked to the user, or None.
get_byond_ckey(user) == byond_ckey[user.id]

\* Token.query.filter(Token.discord_user_id == discord): the committed rows.
TokensOf(discord) == {t \in tokens : t.discord_user_id = discord}

\* Faulty variant: the test is inverted.
GenerateToken_linked_inverted(user) == get_byond_ckey(user) = None

\* The short-circuit test of GenerateToken.get (line 247).
GenerateToken_linked(user) == get_byond_ckey(user) # None

\* Faulty variant: the redirect goes to the profile named in the path.
GenerateToken_redirect_path(user, userid) == Redirect(url_for("profile", userid))

\* The profile page GenerateToken redirects to.
GenerateToken_redirect(user, userid) == Redirect(url_for("profile", user.id))

\* The rows GenerateToken deletes in its session.
GenerateToken_delete(user, userid) == TokensOf(user.discord)

\* The row GenerateToken adds: Token() with token and discord_user_id set.
GenerateToken_new(row, user, userid, tok) ==
    [row |-> row, token |-> tok, discord_user_id |-> user.discord]

\* The store after the session's commit: its deletes and its insert applied.
Commit(store, deleted, added) == (store \ deleted) \cup {added}

\* GenerateToken.get up to and including the DELETE (lines 247-251).
GenerateToken_get(r, u, userid) ==
    /\ reqs[r].pc = "idle"
    /\ \A q \in ReqIds : q < r => reqs[q].pc # "idle"
    /\ IF GenerateToken_linked(User(u))
       THEN /\ reqs' = [reqs EXCEPT ![r] = [pc |-> "done"]]
            /\ last' = [view |-> "GenerateToken", method |-> "GET", user |-> u,
                        userid |-> userid, step |-> "linked",
                        trace |-> << Flash(<<"linked", get_byond_ckey(User(u))>>, "message"),
                                     GenerateToken_redirect(User(u), userid) >>,
                        before |-> tokens]
       ELSE /\ reqs' = [reqs EXCEPT ![r] =
                          [pc |-> "deleted", user |-> u, userid |-> userid,
                           deleted |-> GenerateToken_delete(User(u), userid)]]
            /\ last' = [view |-> "GenerateToken", method |-> "GET", user |-> u,
                        userid |-> userid, step |-> "delete",
                        trace |-> << >>, before |-> tokens]
    /\ UNCHANGED <<persisted, uploaded_files, fs, tokens, byond_ckey, served>>

\* GenerateToken.get from Token() to the redirect (lines 252-264).
GenerateToken_commit(r, tok) ==
    /\ reqs[r].pc = "deleted"
    /\ LET user == User(reqs[r].user)
           new_token == GenerateToken_new(r, user, reqs[r].userid, tok)
       IN  /\ tokens' = Commit(tokens, reqs[r].deleted, new_token)
           /\ last' = [view |-> "GenerateToken", method |-> "GET", user |-> user.id,
                       userid |-> reqs[r].userid, step |-> "commit",
                       trace |-> << Flash(<<"token", new_token.token>>, "message"),
                                    GenerateToken_redirect(user, reqs[r].userid) >>,
                       before |-> tokens]
    /\ reqs' = [reqs EXCEPT ![r] = [pc |-> "done"]]
    /\ UNCHANGED <<persisted, uploaded_files, fs, byond_ckey, served>>

\* At the start some principals are linked; the token each of them was issued
\* before linking is still in the table.
EarlierToken(u) == [row |-> 0, token |-> 1, discord_user_id |-> User(u).discord]
Ckey == "ckey"

InitToken ==
    /\ persisted = [u \in UserIds |-> [h \in Handlers |-> InitialValue]]
    /\ uploaded_files = {}
    /\ fs = {}
    /\ byond_ckey \in [UserIds -> {None, Ckey}]
    /\ tokens = {EarlierToken(u) : u \in {x \in UserIds : byond_ckey[x] # None}}
    /\ reqs = [r \in ReqIds |-> [pc |-> "idle"]]
    /\ last = NoRequest
    /\ served = 0

NextToken ==
    \/ \E r \in ReqIds, u \in UserIds, userid \in PathUserIds : GenerateToken_get(r, u, userid)
    \/ \E r \in ReqIds, tok \in TokenValues : GenerateToken_commit(r, tok)

SpecToken == InitToken /\ [][NextToken]_vars

(***************************************************************************)
(* Properties.  `last` holds the request the latest step answered, the     *)
(* effects of that step in order, and the stores as they were before it.   *)
(***************************************************************************)
Positions(trace, op) == {i \in DOMAIN trace : trace[i].op = op}
Count(trace, op) == Cardinality(Positions(trace, op))
OpsOf(trace) == [i \in DOMAIN trace |-> trace[i].op]
SuccessFlashes(trace) ==
    {i \in Positions(trace, "flash") : trace[i].category = "success"}
IsPrefix(a, b) == Len(a) <= Len(b) /\ \A i \in DOMAIN a : a[i] = b[i]

IsSettings == last.view \in SettingsViews
IsDeleteFile == last.view = "DeleteFile"
IsGenerateToken == last.view = "GenerateToken"

\* The record and the owner a DeleteFile request resolved, from the stores before it.
TargetFiles == {f \in last.before.files : f.id = last.file_id /\ f.user_id \in UserIds}
ActorIsOwner(f) == f.user_id = last.user
ActorIsAdmin == has_permission(User(last.user), "admin")
NamesParties(e, f) ==
    /\ e.file = f.id
    /\ e.owner = User(f.user_id).username
    /\ e.actor = User(last.user).username

\* C1: a DeleteFile request by a principal who neither owns the file nor holds
\* the admin permission removes neither the bytes nor the record, flashes
\* nothing, logs one warning naming actor, owner and file, and redirects to
\* the uploads page.
C1_UnauthorizedDeleteRefused ==
    IsDeleteFile =>
        \A f \in TargetFiles :
            (~ActorIsOwner(f) /\ ~ActorIsAdmin) =>
                /\ uploaded_files = last.before.files
                /\ fs = last.before.fs
                /\ Count(last.trace, "os.remove") = 0
                /\ Count(last.trace, "file_record.delete") = 0
                /\ Count(last.trace, "flash") = 0
                /\ OpsOf(last.trace) = <<"log", "redirect">>
                /\ last.trace[1].level = "warning"
                /\ NamesParties(last.trace[1], f)
                /\ last.trace[2].url.rule = RuleOf("UserUploads")

C1_Witness ==
    /\ IsDeleteFile
    /\ \E f \in TargetFiles :
          /\ ~ActorIsOwner(f) /\ ~ActorIsAdmin
          /\ PathOf(f) \in fs
          /\ f \in uploaded_files

\* C2: the committed Token table never holds two tokens for one external
\* identity (discord_user_id), whatever the interleaving of the requests' steps.
C2_AtMostOneTokenPerIdentity ==
    \A u \in UserIds : Cardinality(TokensOf(User(u).discord)) <= 1

\* C3: a GenerateToken request by a principal with a linked ckey leaves the
\* Token table as it was, opens no session work (no delete, no insert), and
\* only flashes a plain notification and redirects to the principal's profile.
C3_LinkedIsNoOp ==
    /\ \A r \in ReqIds :
          reqs[r].pc = "deleted" => byond_ckey[reqs[r].user] = None
    /\ (IsGenerateToken /\ byond_ckey[last.user] # None) =>
          /\ tokens = last.before
          /\ OpsOf(last.trace) = <<"flash", "redirect">>
          /\ last.trace[1].category = "message"
          /\ last.trace[1].msg = <<"linked", byond_ckey[last.user]>>
          /\ last.trace[2].url = [rule |-> RuleOf("UserProfile"), userid |-> last.user]

C3_Witness ==
    /\ IsGenerateToken
    /\ byond_ckey[last.user] # None
    /\ TokensOf(User(last.user).discord) # {}

\* C4: in the four settings views a POST whose form fails its own validation
\* never calls apply_changeset, flashes nothing, does not redirect and ends by
\* rendering the form, and the persisted state is as before; a GET never calls
\* the handler either.
C4_InvalidFormNeverApplied ==
    IsSettings =>
        /\ (last.method = "GET") =>
              /\ Count(last.trace, "apply_changeset") = 0
              /\ persisted = last.before
        /\ (last.method = "POST" /\ ~last.form.valid) =>
              /\ Count(last.trace, "apply_changeset") = 0
              /\ Count(last.trace, "flash") = 0
              /\ Count(last.trace, "redirect") = 0
              /\ Count(last.trace, "render") = 1
              /\ last.trace[Len(last.trace)].op = "render"
              /\ persisted = last.before

C4_Witness ==
    /\ IsSettings
    /\ last.view = "ChangePassword"
    /\ last.method = "POST"
    /\ ~last.form.valid
    /\ \E u \in UserIds, h \in Handlers : persisted[u][h] # InitialValue

\* C5: in the four settings views, when apply_changeset raises StopValidation
\* the view populates the form with exactly the raised reasons, ends by
\* rendering the form with them, and neither redirects nor flashes.
C5_ValidationRejectedRerenders ==
    (IsSettings /\ last.method = "POST" /\ last.form.valid
        /\ last.outcome.kind = "StopValidation") =>
        /\ Count(last.trace, "populate_errors") = 1
        /\ \A i \in Positions(last.trace, "populate_errors") :
              /\ last.trace[i].reasons = last.outcome.reasons
              /\ \E j \in Positions(last.trace, "apply_changeset") : j < i
        /\ Count(last.trace, "render") = 1
        /\ last.trace[Len(last.trace)].op = "render"
        /\ last.trace[Len(last.trace)].errors = last.outcome.reasons
        /\ Count(last.trace, "redirect") = 0
        /\ Count(last.trace, "flash") = 0

C5_Witness ==
    /\ IsSettings /\ last.method = "POST" /\ last.form.valid
    /\ last.view = "ChangeEmail"
    /\ last.outcome.kind = "StopValidation"
    /\ Cardinality(last.outcome.reasons) = 2

\* C6: in the four settings views, when apply_changeset raises PersistenceError
\* the view logs the failure, flashes one "danger" notification and ends by
\* redirecting to the route it is registered under; it renders nothing,
\* populates no form errors and flashes no success.
C6_PersistenceFailureRedirects ==
    (IsSettings /\ last.method = "POST" /\ last.form.valid
        /\ last.outcome.kind = "PersistenceError") =>
        /\ Count(last.trace, "log") = 1
        /\ Count(last.trace, "flash") = 1
        /\ \A i \in Positions(last.trace, "flash") : last.trace[i].category = "danger"
        /\ Count(last.trace, "redirect") = 1
        /\ last.trace[Len(last.trace)].op = "redirect"
        /\ last.trace[Len(last.trace)].url.rule = RuleOf(last.view)
        /\ Count(last.trace, "render") = 0
        /\ Count(last.trace, "populate_errors") = 0
        /\ SuccessFlashes(last.trace) = {}

C6_Witness ==
    /\ IsSettings /\ last.method = "POST" /\ last.form.valid
    /\ last.view = "UserSettings"
    /\ last.outcome.kind = "PersistenceError"

\* C7: in the four settings views a POST with a valid form calls
\* apply_changeset exactly once, for the current principal and with the change
\* set of the request's form; a success notification is flashed exactly when
\* that call returned normally, after the call and before the redirect.
C7_AppliedOnceThenFlashThenRedirect ==
    (IsSettings /\ last.method = "POST" /\ last.form.valid) =>
        /\ Count(last.trace, "apply_changeset") = 1
        /\ \A i \in Positions(last.trace, "apply_changeset") :
              /\ last.trace[i].user = last.user
              /\ last.trace[i].change = [value |-> last.form.data]
        /\ (SuccessFlashes(last.trace) # {}) <=> (last.outcome.kind = "ok")
        /\ (last.outcome.kind = "ok") =>
              /\ Cardinality(SuccessFlashes(last.trace)) = 1
              /\ Count(last.trace, "redirect") = 1
              /\ \A a \in Positions(last.trace, "apply_changeset"),
                    f \in SuccessFlashes(last.trace),
                    d \in Positions(last.trace, "redirect") : a < f /\ f < d

C7_Witness ==
    /\ IsSettings /\ last.method = "POST" /\ last.form.valid
    /\ last.view = "ChangeUserDetails"
    /\ last.outcome.kind = "ok"
    /\ last.user = 2
    /\ persisted[last.user]["details_update_handler"] = "v2"
    /\ last.before[last.user]["details_update_handler"] = "v1"

\* C8: a DeleteFile request by the owner or by an admin performs, in this
\* order: the audit log entry naming actor, owner and file; os.remove of the
\* path made of the upload root, the owner's discord id and the stored name;
\* the deletion of the record; the success notification; the redirect.  When
\* no step raises, the bytes and the record are gone and one audit entry was
\* logged.
DeleteFileOrder == <<"log", "os.remove", "file_record.delete", "flash", "redirect">>
Raised(trace) == Count(trace, "raise") > 0
StepsOf(trace) == IF Raised(trace) THEN SubSeq(trace, 1, Len(trace) - 1) ELSE trace

C8_AuthorizedDeleteOrder ==
    IsDeleteFile =>
        \A f \in TargetFiles :
            (ActorIsOwner(f) \/ ActorIsAdmin) =>
                /\ Len(StepsOf(last.trace)) >= 1
                /\ IsPrefix(OpsOf(StepsOf(last.trace)), DeleteFileOrder)
                /\ Count(last.trace, "log") = 1
                /\ last.trace[1].level = "info"
                /\ NamesParties(last.trace[1], f)
                /\ \A i \in Positions(last.trace, "os.remove") :
                      last.trace[i].path =
                          <<UPLOAD_FOLDER, User(f.user_id).discord, f.current_name>>
                /\ \A i \in Positions(last.trace, "file_record.delete") :
                      last.trace[i].id = f.id
                /\ ~Raised(last.trace) =>
                      /\ OpsOf(last.trace) = DeleteFileOrder
                      /\ last.trace[4].category = "success"
                      /\ last.trace[5].url.rule = RuleOf("UserUploads")
                      /\ f \notin uploaded_files
                      /\ PathOf(f) \notin fs
                      /\ PathOf(f) \in last.before.fs

C8_Witness ==
    /\ IsDeleteFile
    /\ \E f \in TargetFiles :
          /\ ~ActorIsOwner(f) /\ ActorIsAdmin
          /\ ~Raised(last.trace)
          /\ f \notin uploaded_files
          /\ PathOf(f) \notin fs

\* C9: when os.remove fails the request ends in the raised error, the record
\* is not deleted and no success is flashed; when os.remove succeeds and the
\* record deletion fails, the request ends in the raised error with the record
\* still in the table and its bytes gone.
RemoveFails(f) == last.env.io_error \/ PathOf(f) \notin last.before.fs

C9_FailuresPropagateUncompensated ==
    IsDeleteFile =>
        \A f \in TargetFiles :
            (ActorIsOwner(f) \/ ActorIsAdmin) =>
                /\ RemoveFails(f) =>
                      /\ last.trace[Len(last.trace)].op = "raise"
                      /\ Count(last.trace, "file_record.delete") = 0
                      /\ f \in uploaded_files
                      /\ fs = last.before.fs
                      /\ SuccessFlashes(last.trace) = {}
                /\ (~RemoveFails(f) /\ last.env.db_error) =>
                      /\ last.trace[Len(last.trace)].op = "raise"
                      /\ f \in uploaded_files
                      /\ PathOf(f) \notin fs
                      /\ SuccessFlashes(last.trace) = {}
                      /\ Count(last.trace, "redirect") = 0

C9_Witness ==
    /\ IsDeleteFile
    /\ \E f \in TargetFiles :
          /\ ActorIsOwner(f) \/ ActorIsAdmin
          /\ ~RemoveFails(f) /\ last.env.db_error
          /\ f \in uploaded_files
          /\ PathOf(f) \notin fs

\* C10: GenerateToken acts on the authenticated principal whatever the userid
\* of the path: the rows it deletes, the row it adds and the redirect do not
\* depend on the path's userid, every row it deletes or adds carries the
\* principal's discord id, and it redirects to the principal's own profile.
C10_PathUserIdIgnored ==
    /\ \A u \in UserIds, a \in PathUserIds :
          /\ GenerateToken_delete(User(u), a) = GenerateToken_delete(User(u), u)
          /\ GenerateToken_redirect(User(u), a) = GenerateToken_redirect(User(u), u)
          /\ \A tok \in TokenValues :
                GenerateToken_new(0, User(u), a, tok) = GenerateToken_new(0, User(u), u, tok)
    /\ \A r \in ReqIds :
          reqs[r].pc = "deleted" =>
              \A t \in reqs[r].deleted : t.discord_user_id = User(reqs[r].user).discord
    /\ IsGenerateToken =>
          /\ \A t \in (tokens \ last.before) \cup (last.before \ tokens) :
                t.discord_user_id = User(last.user).discord
          /\ \A i \in Positions(last.trace, "redirect") :
                last.trace[i].url = [rule |-> RuleOf("UserProfile"), userid |-> last.user]

C10_Witness ==
    /\ IsGenerateToken
    /\ last.step = "commit"
    /\ last.userid # last.user
    /\ last.userid \in UserIds
    /\ TokensOf(User(last.userid).discord) # {}
    /\ last.before \ tokens # {}
    /\ tokens \ last.before # {}

=============================================================================
